---- MODULE Spec2Model ----
(***************************************************************************)
(* Model of generate_notes.py: a single-run script that reads a            *)
(* veterinary consultation record (JSON), extracts and defaults its        *)
(* fields, linearises them into a summary, sends one chat-completion       *)
(* request and prints {"discharge_note": ...} on standard output.          *)
(*                                                                         *)
(* Python values are tagged records (JV); Python strings that the script   *)
(* builds by concatenation are sequences of fragments (a "text"), with the *)
(* empty string being the empty sequence.  An operation that can raise     *)
(* returns a result [exc, val]; exc = "" means it returned normally.       *)
(***************************************************************************)
EXTENDS Integers, Sequences, FiniteSets, TLC

\* ---------------------------------------------------------------- bounds
MaxLen  == 2       \* length of the list that a generated record varies
MaxText == 3       \* length of the completion text, in characters

\* ------------------------------------------------------- Python values
JV(t, n, s, a, o) == [t |-> t, n |-> n, s |-> s, a |-> a, o |-> o]
JNull    == JV("null", 0, "", <<>>, <<>>)
JBool(b) == JV("bool", IF b THEN 1 ELSE 0, "", <<>>, <<>>)
JNum(k)  == JV("num", k, "", <<>>, <<>>)
JStr(x)  == JV("str", 0, x, <<>>, <<>>)
JArr(q)  == JV("list", 0, "", q, <<>>)
JObj(f)  == JV("dict", 0, "", <<>>, f)

Ok(v)    == [exc |-> "", val |-> v]
Raise(e) == [exc |-> e, val |-> JNull]

\* bool(v): the test of `if v:` and of the comprehension filters
Truthy(v) ==
  CASE v.t = "null" -> FALSE
    [] v.t = "bool" -> v.n = 1
    [] v.t = "num"  -> v.n # 0
    [] v.t = "str"  -> v.s # ""
    [] v.t = "list" -> Len(v.a) > 0
    [] v.t = "dict" -> DOMAIN v.o # {}

\* faulty variant: v.get(k), the default forgotten
GetNoDefault(v, k, d) ==
  IF v.t # "dict" THEN Raise("AttributeError")
  ELSE Ok(IF k \in DOMAIN v.o THEN v.o[k] ELSE JNull)

\* v.get(k, d): only a dict has the method
Get(v, k, d) ==
  IF v.t # "dict" THEN Raise("AttributeError")
  ELSE Ok(IF k \in DOMAIN v.o THEN v.o[k] ELSE d)

\* iter(v): lists yield their elements, dicts their keys, strings their
\* characters (the generated inputs only hold one-character strings and
\* one-key dicts where a list is expected); anything else is not iterable.
Iterable(v) == v.t \in {"list", "dict", "str"}

Elements(v) ==
  CASE v.t = "list" -> v.a
    [] v.t = "dict" -> IF DOMAIN v.o = {} THEN <<>>
                       ELSE <<JStr(CHOOSE k \in DOMAIN v.o : TRUE)>>
    [] v.t = "str"  -> IF v.s = "" THEN <<>> ELSE <<JStr(v.s)>>

\* ------------------------------------------------------------- texts
Frag(s) == IF s = "" THEN <<>> ELSE <<s>>

RECURSIVE JoinText(_, _)
JoinText(texts, sep) ==
  IF Len(texts) = 0 THEN <<>>
  ELSE IF Len(texts) = 1 THEN texts[1]
  ELSE texts[1] \o Frag(sep) \o JoinText(Tail(texts), sep)

\* sep.join(values): every value must be a str
PyJoin(sep, values) ==
  IF \E i \in 1..Len(values) : values[i].t # "str" THEN Raise("TypeError")
  ELSE Ok(JoinText([i \in 1..Len(values) |-> Frag(values[i].s)], sep))

\* f"{v}" for the scalars a record can hold
PyFormat(v) ==
  CASE v.t = "str"  -> Frag(v.s)
    [] v.t = "null" -> <<"None">>
    [] v.t = "num"  -> <<ToString(v.n)>>
    [] v.t = "bool" -> IF v.n = 1 THEN <<"True">> ELSE <<"False">>

\* faulty variant: the comprehension without its `if e.get(key)` filter
FilteredNamesKeepAll(lst, key, default) ==
  IF ~Iterable(lst) THEN Raise("TypeError")
  ELSE LET es == Elements(lst) IN
       IF \E i \in 1..Len(es) : es[i].t # "dict" THEN Raise("AttributeError")
       ELSE Ok([i \in 1..Len(es) |-> Get(es[i], key, default).val])

\* [e.get(key, default) for e in lst if e.get(key)]
FilteredNames(lst, key, default) ==
  IF ~Iterable(lst) THEN Raise("TypeError")
  ELSE LET es == Elements(lst) IN
       IF \E i \in 1..Len(es) : es[i].t # "dict" THEN Raise("AttributeError")
       ELSE LET keep == SelectSeq(es, LAMBDA e : Truthy(Get(e, key, JNull).val))
            IN  Ok([i \in 1..Len(keep) |-> Get(keep[i], key, default).val])

\* faulty variant: the loop skipping the items without a name
UnfilteredNamesFiltering(lst, key, default) ==
  IF ~Iterable(lst) THEN Raise("TypeError")
  ELSE LET es == Elements(lst) IN
       IF \E i \in 1..Len(es) : es[i].t # "dict" THEN Raise("AttributeError")
       ELSE LET keep == SelectSeq(es, LAMBDA e : Truthy(Get(e, key, JNull).val))
            IN  Ok([i \in 1..Len(keep) |-> Get(keep[i], key, default).val])

\* for e in lst: out.append(e.get(key, default))
UnfilteredNames(lst, key, default) ==
  IF ~Iterable(lst) THEN Raise("TypeError")
  ELSE LET es == Elements(lst) IN
       IF \E i \in 1..Len(es) : es[i].t # "dict" THEN Raise("AttributeError")
       ELSE Ok([i \in 1..Len(es) |-> Get(es[i], key, default).val])

\* s.strip() on a text of characters
IsSpace(c) == c \in {" ", "\n"}

RECURSIVE LStrip(_)
LStrip(s) == IF Len(s) > 0 /\ IsSpace(s[1]) THEN LStrip(Tail(s)) ELSE s

RECURSIVE RStrip(_)
RStrip(s) ==
  IF Len(s) > 0 /\ IsSpace(s[Len(s)]) THEN RStrip(SubSeq(s, 1, Len(s) - 1)) ELSE s

Strip(s) == RStrip(LStrip(s))

\* ------------------------------------------------ inputs of one run
Names == {"A", "B"}

Item(key, s) == JObj(key :> JStr(s))
NoKeyItem    == JObj(<<>>)

\* the item key of a list field: notes carry "note", the rest "name"
ItemKey(field) == IF field = "clinical_notes" THEN "note" ELSE "name"

\* well-shaped list items: key missing, empty, or one of the names
Kinds(key) == {NoKeyItem, Item(key, "")} \cup {Item(key, n) : n \in Names}

SeqsOfLen(S, n) == [1..n -> S]

BasePatient == [name |-> JStr("Milo"), species |-> JStr("dog")]

Treatment(pr, me, rx, fo, su) ==
  [procedures |-> pr, medicines |-> me, prescriptions |-> rx,
   foods |-> fo, supplies |-> su]

Consultation(notes, diag, treat) ==
  [date |-> JStr("2024-05-01"), reason |-> JStr("limping"),
   clinical_notes |-> notes, diagnostics |-> diag,
   treatment_items |-> JObj(treat)]

Root(patient, consultation) ==
  JObj([patient |-> JObj(patient), consultation |-> JObj(consultation)])

FullRecord(notes, diag, pr, me, rx, fo, su) ==
  Root(BasePatient,
       Consultation(JArr(notes), JArr(diag),
                    Treatment(JArr(pr), JArr(me), JArr(rx), JArr(fo), JArr(su))))

Restrict(f, keys) == [k \in keys |-> f[k]]

\* every field present, one list of up to MaxLen items, the others empty
ListFields ==
  <<"clinical_notes", "diagnostics", "procedures", "medicines",
    "prescriptions", "foods", "supplies">>

ItemLists(key) == UNION {SeqsOfLen(Kinds(key), n) : n \in 0..MaxLen}

OnlyList(k, items) ==
  LET l(i) == IF i = k THEN items ELSE <<>>
  IN  FullRecord(l(1), l(2), l(3), l(4), l(5), l(6), l(7))

FamLists ==
  {OnlyList(k, items) : k \in {1}, items \in ItemLists("note")}
  \cup {OnlyList(k, items) : k \in 2..7, items \in ItemLists("name")}

\* every combination of empty and one-item lists
OneOrNone(key) == {<<>>, <<Item(key, "A")>>}

FamSections ==
  {FullRecord(l1, l2, l3, l4, l5, l6, l7) :
     l1 \in OneOrNone("note"), l2 \in OneOrNone("name"),
     l3 \in OneOrNone("name"), l4 \in OneOrNone("name"),
     l5 \in OneOrNone("name"), l6 \in OneOrNone("name"),
     l7 \in OneOrNone("name")}

\* every combination of empty, unnamed and named treatment items
NoneUnnamedNamed == {<<>>, <<NoKeyItem>>, <<Item("name", "A")>>}

FamTreatments ==
  {FullRecord(<<>>, <<>>, l3, l4, l5, l6, l7) :
     l3 \in NoneUnnamedNamed, l4 \in NoneUnnamedNamed, l5 \in NoneUnnamedNamed,
     l6 \in NoneUnnamedNamed, l7 \in NoneUnnamedNamed}

\* every subset of the optional fields and sub-records missing
BaseList(field) == JArr(<<Item(ItemKey(field), "A")>>)

BaseTreatment ==
  Treatment(BaseList("procedures"), BaseList("medicines"),
            BaseList("prescriptions"), BaseList("foods"), BaseList("supplies"))

BaseConsultation ==
  Consultation(BaseList("clinical_notes"), BaseList("diagnostics"), BaseTreatment)

PatientVariants ==
  {Restrict(BasePatient, K) : K \in SUBSET {"name", "species"}}

ConsultationVariants ==
  {Restrict(BaseConsultation, K) :
     K \in SUBSET {"date", "reason", "clinical_notes", "diagnostics"}}
  \cup
  {Restrict(BaseConsultation, K)
     @@ ("treatment_items" :> JObj(Restrict(BaseTreatment, L))) :
     K \in SUBSET {"date", "reason", "clinical_notes", "diagnostics"},
     L \in SUBSET {"procedures", "medicines", "prescriptions", "foods", "supplies"}}

FamMissing ==
  {JObj(<<>>)}
  \cup {JObj("patient" :> JObj(p)) : p \in PatientVariants}
  \cup {JObj("consultation" :> JObj(c)) : c \in ConsultationVariants}
  \cup {Root(p, c) : p \in PatientVariants, c \in ConsultationVariants}

\* one level present but null or of an unexpected shape
BadVals ==
  {JNull, JStr("x"), JNum(5), JNum(0), JBool(TRUE), JArr(<<>>),
   JArr(<<JStr("x")>>), JObj(<<>>), JObj("k" :> JNull)}

BadScalars == {JNull, JNum(5), JBool(TRUE)}

ConsultLists == {"clinical_notes", "diagnostics"}
TreatLists   == {"procedures", "medicines", "prescriptions", "foods", "supplies"}

WithList(field, v) ==
  IF field \in ConsultLists
  THEN Root(BasePatient, [BaseConsultation EXCEPT ![field] = v])
  ELSE Root(BasePatient,
            [BaseConsultation EXCEPT
               !["treatment_items"] = JObj([BaseTreatment EXCEPT ![field] = v])])

FamShape ==
  BadVals
  \cup {JObj([patient |-> b, consultation |-> JObj(BaseConsultation)]) : b \in BadVals}
  \cup {JObj([patient |-> JObj(BasePatient), consultation |-> b]) : b \in BadVals}
  \cup {Root(BasePatient, [BaseConsultation EXCEPT !["treatment_items"] = b]) :
          b \in BadVals}
  \cup {Root([BasePatient EXCEPT ![k] = b], BaseConsultation) :
          k \in {"name", "species"}, b \in BadScalars}
  \cup {Root(BasePatient, [BaseConsultation EXCEPT ![k] = b]) :
          k \in {"date", "reason"}, b \in BadScalars}
  \cup {WithList(f, b) : f \in ConsultLists \cup TreatLists, b \in BadVals}
  \cup {WithList(f, JArr(<<b>>)) : f \in ConsultLists \cup TreatLists, b \in BadVals}
  \cup {WithList(f, JArr(<<JObj(ItemKey(f) :> b)>>)) :
          f \in ConsultLists \cup TreatLists, b \in BadVals}

Records == FamLists \cup FamSections \cup FamTreatments \cup FamMissing \cup FamShape

\* what the completion call can do: raise one of the handled errors, or
\* return a message whose content is None or a text
Chars == {" ", "x"}
Texts == UNION {SeqsOfLen(Chars, n) : n \in 0..MaxText}

ErrorKinds ==
  {"APIConnectionError", "RateLimitError", "AuthenticationError",
   "APIError", "Exception"}

Responses ==
  {[kind |-> e, none |-> TRUE, text |-> <<>>] : e \in ErrorKinds}
  \cup {[kind |-> "ok", none |-> TRUE, text |-> <<>>]}
  \cup {[kind |-> "ok", none |-> FALSE, text |-> t] : t \in Texts}

Credentials == {JNull, JStr(""), JStr("sk-test-key")}
ArgvKinds   == {"path", "help", "invalid"}
FileStates  == {"missing", "not_json", "json"}

\* ---------------------------------------------------- literal fragments
DefaultName    == "Your pet"
DefaultSpecies == "the species"
DefaultDate    == "the recent visit"
DefaultReason  == "the consultation"

NotesFallback  == "No specific clinical notes recorded for this visit."
NotesPrefix    == "Clinical observations: "
ProcPrefix     == "Procedures performed: "
MedPrefix      == "Medicines administered during the visit: "
RxPrefix       == "Medications prescribed for home care: "
RxSuffix       == ". Please follow the specific instructions provided for administration."
RxFallbackBody == "No new medications were prescribed for you to take home during this visit. If your pet is on existing medication, please continue as previously directed."
FoodPrefix     == "Specific foods recommended/dispensed: "
SupplyPrefix   == "Supplies provided: "
TreatFallback  == "No specific treatments, medications, or supplies were recorded for this visit."
DiagPrefix     == "Diagnostics performed: "
DiagFallbackBody == "No diagnostics were recorded for this visit."

\* --------------------------------------------------------------- state
VARIABLES
  pc,                       \* position of the script
  OPENAI_API_KEY, argv, file, opens,
  consultation_data,
  patient_info, consult_info, treatment_items,
  patient_name, patient_species, consult_date, consult_reason,
  clinical_notes_list, notes_texts, clinical_notes_summary,
  treatment_details_parts,
  procedures_list, proc_names,
  medicines_list, med_summaries,
  prescriptions_list, home_med_details,
  foods_list, food_names,
  supplies_list, supply_names,
  all_treatment_summary,
  diagnostics_list, diag_names, diagnostics_summary,
  consultation_summary_for_llm,
  requests, response, generated_note_text,
  stdout, stderr, exit_code, exception

envVars    == <<OPENAI_API_KEY, argv, file, opens, consultation_data>>
headerVars == <<patient_info, consult_info, treatment_items,
                patient_name, patient_species, consult_date, consult_reason>>
notesVars  == <<clinical_notes_list, notes_texts, clinical_notes_summary>>
procVars   == <<procedures_list, proc_names>>
medVars    == <<medicines_list, med_summaries>>
rxVars     == <<prescriptions_list, home_med_details>>
foodVars   == <<foods_list, food_names>>
supplyVars == <<supplies_list, supply_names>>
diagVars   == <<diagnostics_list, diag_names, diagnostics_summary>>
llmVars    == <<requests, response, generated_note_text>>
outVars    == <<stdout, exit_code, exception>>

vars == <<pc, envVars, headerVars, notesVars, treatment_details_parts,
          procVars, medVars, rxVars, foodVars, supplyVars,
          all_treatment_summary, diagVars, consultation_summary_for_llm,
          llmVars, outVars, stderr>>

NoResponse == [kind |-> "none", none |-> TRUE, text |-> <<>>]
NoNote     == [none |-> TRUE, text |-> <<>>]

\* Locals that are not yet bound hold None / the empty list; exit_code is
\* meaningful once pc = "exited".
Init ==
  /\ pc = "module"
  /\ OPENAI_API_KEY = JNull /\ argv = "unparsed" /\ file = "unopened" /\ opens = 0
  /\ consultation_data = JNull
  /\ patient_info = JNull /\ consult_info = JNull /\ treatment_items = JNull
  /\ patient_name = JNull /\ patient_species = JNull
  /\ consult_date = JNull /\ consult_reason = JNull
  /\ clinical_notes_list = JNull /\ notes_texts = <<>>
  /\ clinical_notes_summary = <<>>
  /\ treatment_details_parts = <<>>
  /\ procedures_list = JNull /\ proc_names = <<>>
  /\ medicines_list = JNull /\ med_summaries = <<>>
  /\ prescriptions_list = JNull /\ home_med_details = <<>>
  /\ foods_list = JNull /\ food_names = <<>>
  /\ supplies_list = JNull /\ supply_names = <<>>
  /\ all_treatment_summary = <<>>
  /\ diagnostics_list = JNull /\ diag_names = <<>> /\ diagnostics_summary = <<>>
  /\ consultation_summary_for_llm = <<>>
  /\ requests = <<>> /\ response = NoResponse /\ generated_note_text = NoNote
  /\ stdout = <<>> /\ stderr = <<>> /\ exit_code = 0 /\ exception = ""

\* print(..., file=sys.stderr)
Log(msgs) == stderr' = stderr \o msgs

\* faulty variant: exit() called without its status
ExitNoStatus(code) == pc' = "exited" /\ exit_code' = 0 /\ exception' = exception

\* exit(code): the interpreter stops; nothing else is written
Exit(code) == pc' = "exited" /\ exit_code' = code /\ exception' = exception

\* an exception nobody catches: traceback on stderr, exit status 1
Uncaught(e) ==
  /\ pc' = "exited" /\ exit_code' = 1 /\ exception' = e
  /\ stdout' = stdout
  /\ Log(<<"Traceback">>)

\* faulty variant: the missing credential is reported but the script goes on
LoadEnvNoExit ==
  /\ pc = "module"
  /\ \E key \in Credentials :
       /\ OPENAI_API_KEY' = key
       /\ IF ~Truthy(key)
          THEN Log(<<"Loading environment variables...",
                     "Error: OPENAI_API_KEY not found.">>)
          ELSE Log(<<"Loading environment variables...",
                     "OpenAI API Key loaded (masked)">>)
       /\ pc' = "main" /\ UNCHANGED <<exit_code, exception>>
  /\ UNCHANGED <<argv, file, opens, consultation_data, headerVars, notesVars,
                 treatment_details_parts, procVars, medVars, rxVars, foodVars,
                 supplyVars, all_treatment_summary, diagVars,
                 consultation_summary_for_llm, llmVars, stdout>>

\* lines 9-21: load the environment, require the credential
LoadEnv ==
  /\ pc = "module"
  /\ \E key \in Credentials :
       /\ OPENAI_API_KEY' = key
       /\ IF ~Truthy(key)
          THEN /\ Log(<<"Loading environment variables...",
                        "Error: OPENAI_API_KEY not found.">>)
               /\ Exit(1)
          ELSE /\ Log(<<"Loading environment variables...",
                        "OpenAI API Key loaded (masked)">>)
               /\ pc' = "main" /\ UNCHANGED <<exit_code, exception>>
  /\ UNCHANGED <<argv, file, opens, consultation_data, headerVars, notesVars,
                 treatment_details_parts, procVars, medVars, rxVars, foodVars,
                 supplyVars, all_treatment_summary, diagVars,
                 consultation_summary_for_llm, llmVars, stdout>>

\* lines 100-105: argparse; -h prints the help on stdout and exits 0, a
\* wrong command line prints the usage on stderr and exits 2
ParseArgs ==
  /\ pc = "main"
  /\ \E a \in ArgvKinds :
       /\ argv' = a
       /\ CASE a = "help" ->
                 /\ stdout' = Append(stdout, [fmt |-> "help", doc |-> <<>>])
                 /\ stderr' = stderr
                 /\ Exit(0)
            [] a = "invalid" ->
                 /\ Log(<<"usage", "error: the following arguments are required">>)
                 /\ stdout' = stdout
                 /\ Exit(2)
            [] a = "path" ->
                 /\ Log(<<"Attempting to load JSON">>)
                 /\ pc' = "load"
                 /\ UNCHANGED <<stdout, exit_code, exception>>
  /\ UNCHANGED <<OPENAI_API_KEY, file, opens, consultation_data, headerVars,
                 notesVars, treatment_details_parts, procVars, medVars, rxVars,
                 foodVars, supplyVars, all_treatment_summary, diagVars,
                 consultation_summary_for_llm, llmVars>>

\* lines 107-122: open and parse the input file
LoadJson ==
  /\ pc = "load"
  /\ opens' = opens + 1
  /\ \E f \in FileStates :
       /\ file' = f
       /\ CASE f = "missing" ->
                 /\ Log(<<"Error: Input file not found">>)
                 /\ Exit(1)
                 /\ consultation_data' = consultation_data
            [] f = "not_json" ->
                 /\ Log(<<"Error: Could not decode JSON">>)
                 /\ Exit(1)
                 /\ consultation_data' = consultation_data
            [] f = "json" ->
                 /\ \E r \in Records : consultation_data' = r
                 /\ Log(<<"Loaded JSON data successfully",
                          "--- Loaded Consultation Data ---", "json.dumps",
                          "--- End Loaded Consultation Data ---">>)
                 /\ pc' = "extract"
                 /\ UNCHANGED <<exit_code, exception>>
  /\ UNCHANGED <<OPENAI_API_KEY, argv, headerVars, notesVars,
                 treatment_details_parts, procVars, medVars, rxVars, foodVars,
                 supplyVars, all_treatment_summary, diagVars,
                 consultation_summary_for_llm, llmVars, stdout>>

\* ------------------------------------------------ extraction, per section
Min(S) == CHOOSE i \in S : \A j \in S : i <= j

\* the exception of the first statement that raises, "" when none does
FirstExc(rs) ==
  LET bad == {i \in 1..Len(rs) : rs[i].exc # ""}
  IN  IF bad = {} THEN "" ELSE rs[Min(bad)].exc

SectionRaise(e) ==
  [exc |-> e, lst |-> JNull, names |-> <<>>, joined |-> <<>>, emit |-> FALSE]

SectionSkip(lst) ==
  [exc |-> "", lst |-> lst, names |-> <<>>, joined |-> <<>>, emit |-> FALSE]

\* lst = container.get(field, []); if lst: names = [filtered comprehension];
\* if names: sep.join(names)     (lines 137-142, 148-152, 206-217, 223-228)
FilteredSection(container, field, default, sep) ==
  LET g == Get(container, field, JArr(<<>>)) IN
  IF g.exc # "" THEN SectionRaise(g.exc)
  ELSE IF ~Truthy(g.val) THEN SectionSkip(g.val)
  ELSE LET n == FilteredNames(g.val, ItemKey(field), default) IN
       IF n.exc # "" THEN SectionRaise(n.exc)
       ELSE IF Len(n.val) = 0 THEN SectionSkip(g.val)
       ELSE LET j == PyJoin(sep, n.val) IN
            IF j.exc # "" THEN SectionRaise(j.exc)
            ELSE [exc |-> "", lst |-> g.val, names |-> n.val,
                  joined |-> j.val, emit |-> TRUE]

\* lst = container.get(field, []); if lst: for e in lst: names.append(...);
\* if names: sep.join(names)     (lines 155-175, 178-199)
UnfilteredSection(container, field, default, sep) ==
  LET g == Get(container, field, JArr(<<>>)) IN
  IF g.exc # "" THEN SectionRaise(g.exc)
  ELSE IF ~Truthy(g.val) THEN SectionSkip(g.val)
  ELSE LET n == UnfilteredNames(g.val, ItemKey(field), default) IN
       IF n.exc # "" THEN SectionRaise(n.exc)
       ELSE IF Len(n.val) = 0 THEN SectionSkip(g.val)
       ELSE LET j == PyJoin(sep, n.val) IN
            IF j.exc # "" THEN SectionRaise(j.exc)
            ELSE [exc |-> "", lst |-> g.val, names |-> n.val,
                  joined |-> j.val, emit |-> TRUE]

Continue(next) == pc' = next /\ UNCHANGED <<stdout, stderr, exit_code, exception>>

\* lines 127-134
ExtractHeader ==
  /\ pc = "extract"
  /\ LET p  == Get(consultation_data, "patient", JObj(<<>>))
         c  == Get(consultation_data, "consultation", JObj(<<>>))
         t  == Get(c.val, "treatment_items", JObj(<<>>))
         n  == Get(p.val, "name", JStr(DefaultName))
         sp == Get(p.val, "species", JStr(DefaultSpecies))
         d  == Get(c.val, "date", JStr(DefaultDate))
         r  == Get(c.val, "reason", JStr(DefaultReason))
         e  == FirstExc(<<p, c, t, n, sp, d, r>>)
     IN  IF e # ""
         THEN Uncaught(e) /\ UNCHANGED headerVars
         ELSE /\ patient_info' = p.val /\ consult_info' = c.val
              /\ treatment_items' = t.val
              /\ patient_name' = n.val /\ patient_species' = sp.val
              /\ consult_date' = d.val /\ consult_reason' = r.val
              /\ Continue("notes")
  /\ UNCHANGED <<envVars, notesVars, treatment_details_parts, procVars, medVars,
                 rxVars, foodVars, supplyVars, all_treatment_summary, diagVars,
                 consultation_summary_for_llm, llmVars>>

\* lines 136-142
ClinicalNotes ==
  /\ pc = "notes"
  /\ LET r == FilteredSection(consult_info, "clinical_notes", JStr(""), "\n")
     IN  IF r.exc # ""
         THEN Uncaught(r.exc) /\ UNCHANGED notesVars
         ELSE /\ clinical_notes_list' = r.lst
              /\ notes_texts' = r.names
              /\ clinical_notes_summary' =
                   IF r.emit THEN <<NotesPrefix>> \o r.joined
                   ELSE <<NotesFallback>>
              /\ Continue("procedures")
  /\ UNCHANGED <<envVars, headerVars, treatment_details_parts, procVars, medVars,
                 rxVars, foodVars, supplyVars, all_treatment_summary, diagVars,
                 consultation_summary_for_llm, llmVars>>

\* lines 145-152
Procedures ==
  /\ pc = "procedures"
  /\ LET r == FilteredSection(treatment_items, "procedures",
                              JStr("Unnamed Procedure"), ", ")
     IN  IF r.exc # ""
         THEN Uncaught(r.exc) /\ UNCHANGED <<procVars, treatment_details_parts>>
         ELSE /\ procedures_list' = r.lst
              /\ proc_names' = r.names
              /\ treatment_details_parts' =
                   IF r.emit
                   THEN Append(treatment_details_parts,
                               <<ProcPrefix>> \o r.joined \o <<".">>)
                   ELSE treatment_details_parts
              /\ Continue("medicines")
  /\ UNCHANGED <<envVars, headerVars, notesVars, medVars, rxVars, foodVars,
                 supplyVars, all_treatment_summary, diagVars,
                 consultation_summary_for_llm, llmVars>>

\* lines 154-175
Medicines ==
  /\ pc = "medicines"
  /\ LET r == UnfilteredSection(treatment_items, "medicines",
                                JStr("Unnamed Medicine"), ", ")
     IN  IF r.exc # ""
         THEN Uncaught(r.exc) /\ UNCHANGED <<medVars, treatment_details_parts>>
         ELSE /\ medicines_list' = r.lst
              /\ med_summaries' = r.names
              /\ treatment_details_parts' =
                   IF r.emit
                   THEN Append(treatment_details_parts,
                               <<MedPrefix>> \o r.joined \o <<".">>)
                   ELSE treatment_details_parts
              /\ Continue("prescriptions")
  /\ UNCHANGED <<envVars, headerVars, notesVars, procVars, rxVars, foodVars,
                 supplyVars, all_treatment_summary, diagVars,
                 consultation_summary_for_llm, llmVars>>

\* lines 177-202
Prescriptions ==
  /\ pc = "prescriptions"
  /\ LET r == UnfilteredSection(treatment_items, "prescriptions",
                                JStr("Unnamed Prescription"), ", ")
     IN  IF r.exc # ""
         THEN Uncaught(r.exc) /\ UNCHANGED <<rxVars, treatment_details_parts>>
         ELSE /\ prescriptions_list' = r.lst
              /\ home_med_details' = r.names
              /\ treatment_details_parts' =
                   IF Truthy(r.lst)
                   THEN IF r.emit
                        THEN Append(treatment_details_parts,
                                    <<RxPrefix>> \o r.joined \o <<RxSuffix>>)
                        ELSE treatment_details_parts
                   ELSE Append(treatment_details_parts,
                               <<RxPrefix, RxFallbackBody>>)
              /\ Continue("foods")
  /\ UNCHANGED <<envVars, headerVars, notesVars, procVars, medVars, foodVars,
                 supplyVars, all_treatment_summary, diagVars,
                 consultation_summary_for_llm, llmVars>>

\* lines 205-210
Foods ==
  /\ pc = "foods"
  /\ LET r == FilteredSection(treatment_items, "foods",
                              JStr("Unnamed Food Item"), ", ")
     IN  IF r.exc # ""
         THEN Uncaught(r.exc) /\ UNCHANGED <<foodVars, treatment_details_parts>>
         ELSE /\ foods_list' = r.lst
              /\ food_names' = r.names
              /\ treatment_details_parts' =
                   IF r.emit
                   THEN Append(treatment_details_parts,
                               <<FoodPrefix>> \o r.joined \o <<".">>)
                   ELSE treatment_details_parts
              /\ Continue("supplies")
  /\ UNCHANGED <<envVars, headerVars, notesVars, procVars, medVars, rxVars,
                 supplyVars, all_treatment_summary, diagVars,
                 consultation_summary_for_llm, llmVars>>

\* lines 212-217
Supplies ==
  /\ pc = "supplies"
  /\ LET r == FilteredSection(treatment_items, "supplies",
                              JStr("Unnamed Supply"), ", ")
     IN  IF r.exc # ""
         THEN Uncaught(r.exc) /\ UNCHANGED <<supplyVars, treatment_details_parts>>
         ELSE /\ supplies_list' = r.lst
              /\ supply_names' = r.names
              /\ treatment_details_parts' =
                   IF r.emit
                   THEN Append(treatment_details_parts,
                               <<SupplyPrefix>> \o r.joined \o <<".">>)
                   ELSE treatment_details_parts
              /\ Continue("join")
  /\ UNCHANGED <<envVars, headerVars, notesVars, procVars, medVars, rxVars,
                 foodVars, all_treatment_summary, diagVars,
                 consultation_summary_for_llm, llmVars>>

\* lines 219-220
JoinTreatment ==
  /\ pc = "join"
  /\ all_treatment_summary' =
       IF Len(treatment_details_parts) > 0
       THEN JoinText(treatment_details_parts, "\n\n")
       ELSE <<TreatFallback>>
  /\ Continue("diagnostics")
  /\ UNCHANGED <<envVars, headerVars, notesVars, treatment_details_parts,
                 procVars, medVars, rxVars, foodVars, supplyVars, diagVars,
                 consultation_summary_for_llm, llmVars>>

\* lines 222-228
Diagnostics ==
  /\ pc = "diagnostics"
  /\ LET r == FilteredSection(consult_info, "diagnostics",
                              JStr("Unnamed Diagnostic"), ", ")
     IN  IF r.exc # ""
         THEN Uncaught(r.exc) /\ UNCHANGED diagVars
         ELSE /\ diagnostics_list' = r.lst
              /\ diag_names' = r.names
              /\ diagnostics_summary' =
                   IF r.emit THEN <<DiagPrefix>> \o r.joined \o <<".">>
                   ELSE <<DiagPrefix, DiagFallbackBody>>
              /\ Continue("assemble")
  /\ UNCHANGED <<envVars, headerVars, notesVars, treatment_details_parts,
                 procVars, medVars, rxVars, foodVars, supplyVars,
                 all_treatment_summary, consultation_summary_for_llm, llmVars>>

\* ------------------------------------------------------ prompt assembly
\* faulty variant: the treatment block placed before the diagnostics
SummaryTemplateTreatFirst(name, species, date, reason, notes, diag, treat) ==
  <<"Patient Name: ">> \o PyFormat(name)
  \o <<"Species: ">> \o PyFormat(species)
  \o <<"Consultation Date: ">> \o PyFormat(date)
  \o <<"Reason for Visit: ">> \o PyFormat(reason)
  \o notes
  \o <<"--- Treatment Summary ---">> \o treat
  \o <<"--- End Treatment Summary ---", "--- Diagnostics Summary ---">> \o diag
  \o <<"--- End Diagnostics Summary --",
       "Other Instructions/Observations from Vet: (Relying on LLM to infer general advice based on the provided data.)">>

\* lines 231-248: the fixed template around the extracted values
SummaryTemplate(name, species, date, reason, notes, diag, treat) ==
  <<"Patient Name: ">> \o PyFormat(name)
  \o <<"Species: ">> \o PyFormat(species)
  \o <<"Consultation Date: ">> \o PyFormat(date)
  \o <<"Reason for Visit: ">> \o PyFormat(reason)
  \o notes
  \o <<"--- Diagnostics Summary ---">> \o diag
  \o <<"--- End Diagnostics Summary --", "--- Treatment Summary ---">> \o treat
  \o <<"--- End Treatment Summary ---",
       "Other Instructions/Observations from Vet: (Relying on LLM to infer general advice based on the provided data.)">>

\* lines 53-59
UserPrompt(consultation_data_str) ==
  <<"Please generate the text for a discharge note based on the following consultation information:", "---">>
  \o consultation_data_str
  \o <<"---", "Remember to focus on what the pet owner needs to know and do.">>

\* lines 230-252
Assemble ==
  /\ pc = "assemble"
  /\ consultation_summary_for_llm' =
       SummaryTemplate(patient_name, patient_species, consult_date,
                       consult_reason, clinical_notes_summary,
                       diagnostics_summary, all_treatment_summary)
  /\ Log(<<" Summary string prepared for LLM: ", "summary",
           " End summary string for LLM">>)
  /\ pc' = "call"
  /\ UNCHANGED <<envVars, headerVars, notesVars, treatment_details_parts,
                 procVars, medVars, rxVars, foodVars, supplyVars,
                 all_treatment_summary, diagVars, llmVars, outVars>>

\* faulty variant: the content returned as received, not stripped
GenerateDischargeNoteNoStrip(resp) ==
  IF resp.kind # "ok" THEN [none |-> TRUE, text |-> <<>>]
  ELSE IF resp.none THEN [none |-> TRUE, text |-> <<>>]
  ELSE [none |-> FALSE, text |-> resp.text]

\* lines 24-95, called at line 255: one request, every exception caught
\* and turned into None; the returned content is stripped
GenerateDischargeNote(resp) ==
  IF resp.kind # "ok" THEN [none |-> TRUE, text |-> <<>>]
  ELSE IF resp.none THEN [none |-> TRUE, text |-> <<>>]
  ELSE [none |-> FALSE, text |-> Strip(Strip(resp.text))]

CallLLM ==
  /\ pc = "call"
  /\ requests' = Append(requests,
                        [model |-> "gpt-3.5-turbo", system |-> "system_prompt",
                         user |-> UserPrompt(consultation_summary_for_llm)])
  /\ \E resp \in Responses :
       /\ response' = resp
       /\ generated_note_text' = GenerateDischargeNote(resp)
       /\ Log(<<"Attempting to call OpenAI API...", "User prompt sent to OpenAI">>
              \o (IF resp.kind # "ok" THEN <<"Error: " \o resp.kind>>
                  ELSE IF resp.none
                       THEN <<"OpenAI API call completed.",
                              "An unexpected error occurred">>
                       ELSE <<"OpenAI API call completed.",
                              "Raw content from OpenAI">>))
  /\ pc' = "check"
  /\ UNCHANGED <<envVars, headerVars, notesVars, treatment_details_parts,
                 procVars, medVars, rxVars, foodVars, supplyVars,
                 all_treatment_summary, diagVars, consultation_summary_for_llm,
                 outVars>>

\* json.dumps({"discharge_note": text}, indent=2): one document, one key
JsonDocument(text) == [fmt |-> "json", doc |-> [discharge_note |-> text]]

\* lines 257-279
CheckAndOutput ==
  /\ pc = "check"
  /\ IF generated_note_text.none
     THEN /\ Log(<<"Failed to generate discharge note.">>)
          /\ stdout' = stdout
          /\ Exit(1)
     ELSE IF Len(generated_note_text.text) = 0
     THEN /\ Log(<<"Warning: Generated note is empty.">>)
          /\ stdout' = stdout
          /\ Exit(1)
     ELSE /\ Log(<<"Discharge note generated successfully.",
                   "Generated Discharge Note: ", "note",
                   "End generated discharge note", "Sending data to LLM",
                   "Preparing final JSON output to stdout...",
                   "Script finished.">>)
          /\ stdout' = Append(stdout, JsonDocument(generated_note_text.text))
          /\ Exit(0)
  /\ UNCHANGED <<envVars, headerVars, notesVars, treatment_details_parts,
                 procVars, medVars, rxVars, foodVars, supplyVars,
                 all_treatment_summary, diagVars, consultation_summary_for_llm,
                 llmVars>>

Next ==
  \/ LoadEnv
  \/ ParseArgs
  \/ LoadJson
  \/ ExtractHeader
  \/ ClinicalNotes
  \/ Procedures
  \/ Medicines
  \/ Prescriptions
  \/ Foods
  \/ Supplies
  \/ JoinTreatment
  \/ Diagnostics
  \/ Assemble
  \/ CallLLM
  \/ CheckAndOutput

Spec == Init /\ [][Next]_vars

\* ======================================================================
\* Properties
\* ======================================================================

\* ------------------------------------------- vocabulary of the properties
PcOrder ==
  <<"module", "main", "load", "extract", "notes", "procedures", "medicines",
    "prescriptions", "foods", "supplies", "join", "diagnostics", "assemble",
    "call", "check">>

Idx(p) == CHOOSE i \in 1..Len(PcOrder) : PcOrder[i] = p

\* the step at position `step` has run to its end
Done(step) ==
  \/ pc # "exited" /\ Idx(pc) > Idx(step)
  \/ pc = "exited" /\ file = "json" /\ exception = ""

Has(v, k) == v.t = "dict" /\ k \in DOMAIN v.o
IsStr(v)  == v.t = "str"

RECURSIVE Lookup(_, _)
Lookup(v, path) ==
  IF Len(path) = 0 THEN [found |-> TRUE, val |-> v]
  ELSE IF Has(v, Head(path)) THEN Lookup(v.o[Head(path)], Tail(path))
  ELSE [found |-> FALSE, val |-> JNull]

Missing(r, path) == ~Lookup(r, path).found

FieldPath(field) ==
  IF field \in ConsultLists THEN <<"consultation", field>>
  ELSE <<"consultation", "treatment_items", field>>

\* the record conforms to the data model: every field that is present has
\* the documented type (mapping, sequence of items, string)
StrIfPresent(d, k) == Has(d, k) => IsStr(d.o[k])

ItemListOK(v, key) ==
  /\ v.t = "list"
  /\ \A i \in 1..Len(v.a) : v.a[i].t = "dict" /\ StrIfPresent(v.a[i], key)

ListIfPresent(d, field) == Has(d, field) => ItemListOK(d.o[field], ItemKey(field))

WellShaped(r) ==
  /\ r.t = "dict"
  /\ Has(r, "patient") =>
       LET p == r.o["patient"] IN
       p.t = "dict" /\ StrIfPresent(p, "name") /\ StrIfPresent(p, "species")
  /\ Has(r, "consultation") =>
       LET c == r.o["consultation"] IN
       /\ c.t = "dict"
       /\ StrIfPresent(c, "date") /\ StrIfPresent(c, "reason")
       /\ \A f \in ConsultLists : ListIfPresent(c, f)
       /\ Has(c, "treatment_items") =>
            LET t == c.o["treatment_items"] IN
            t.t = "dict" /\ \A f \in TreatLists : ListIfPresent(t, f)

\* the items of a list field of the record, the empty sequence when missing
SourceItems(r, field) ==
  LET l == Lookup(r, FieldPath(field))
  IN  IF l.found /\ l.val.t = "list" THEN l.val.a ELSE <<>>

\* an item qualifies when its key is present and a non-empty string
Qualifies(item, key) ==
  Has(item, key) /\ IsStr(item.o[key]) /\ item.o[key].s # ""

QualifyingNames(r, field) ==
  LET q == SelectSeq(SourceItems(r, field),
                     LAMBDA it : Qualifies(it, ItemKey(field)))
  IN  [i \in 1..Len(q) |-> q[i].o[ItemKey(field)]]

\* names n1 sep n2 sep ... nk, for non-empty names
Interleave(names, sep) ==
  [i \in 1..(IF Len(names) = 0 THEN 0 ELSE 2 * Len(names) - 1) |->
     IF i % 2 = 1 THEN names[(i + 1) \div 2].s ELSE sep]

\* sub occurs in text at position i
OccursAt(text, sub, i) ==
  /\ i >= 1 /\ i + Len(sub) - 1 <= Len(text)
  /\ \A k \in 1..Len(sub) : text[i + k - 1] = sub[k]

AllSpace(t) == \A i \in 1..Len(t) : t[i] \in {" ", "\n"}

\* t is s without its leading and trailing whitespace
IsTrimOf(t, s) ==
  \E i \in 1..(Len(s) + 1) : \E j \in 0..Len(s) :
    /\ j >= i - 1
    /\ t = SubSeq(s, i, j)
    /\ AllSpace(SubSeq(s, 1, i - 1)) /\ AllSpace(SubSeq(s, j + 1, Len(s)))
    /\ Len(t) > 0 => ~AllSpace(<<t[1]>>) /\ ~AllSpace(<<t[Len(t)]>>)

CredentialMissing == pc # "module" /\ ~Truthy(OPENAI_API_KEY)
FileFailed        == file \in {"missing", "not_json"}
CompletionRaised  == response.kind \in ErrorKinds \/ (response.kind = "ok" /\ response.none)
CompletionEmpty   == response.kind = "ok" /\ ~response.none /\ AllSpace(response.text)
CompletionUsable  == response.kind = "ok" /\ ~response.none /\ ~AllSpace(response.text)

IsNoteDocument(w, text) ==
  /\ w.fmt = "json"
  /\ DOMAIN w.doc = {"discharge_note"}
  /\ w.doc["discharge_note"] = text

\* ---------------------------------------------------------------- C1
\* C1: a run that hits a fatal condition (credential missing, input file
\* missing, input file not JSON, completion call raising, completion text
\* empty) has written nothing to standard output, goes no further than its
\* exit, and exits with a non-zero code.
C1_FatalExitsNonZeroSilently ==
  /\ (CredentialMissing \/ FileFailed) =>
       pc = "exited" /\ exit_code # 0 /\ stdout = <<>>
  /\ (CompletionRaised \/ CompletionEmpty) =>
       /\ stdout = <<>>
       /\ pc \in {"check", "exited"}
       /\ pc = "exited" => exit_code # 0

C1_Witness ==
  /\ pc = "exited" /\ exit_code = 1
  /\ response.kind = "ok" /\ ~response.none
  /\ Len(response.text) = MaxText /\ AllSpace(response.text)

\* ---------------------------------------------------------------- C2
\* C2 as stated: every run that exits with code 0 has made exactly one
\* write to standard output, the JSON object whose single key
\* discharge_note holds the trimmed, non-empty completion text; and a
\* completion text that is non-empty after trimming ends in that exit.
C2_ExitZeroMeansOneNoteDocument ==
  /\ (pc = "exited" /\ exit_code = 0) =>
       /\ Len(stdout) = 1
       /\ IsNoteDocument(stdout[1], generated_note_text.text)
       /\ ~generated_note_text.none
       /\ Len(generated_note_text.text) > 0
       /\ IsTrimOf(generated_note_text.text, response.text)
  /\ CompletionUsable =>
       /\ pc \in {"check", "exited"}
       /\ pc = "exited" =>
            /\ exit_code = 0
            /\ Len(stdout) = 1
            /\ IsNoteDocument(stdout[1], generated_note_text.text)
            /\ IsTrimOf(generated_note_text.text, response.text)

\* C2 amended: the same, for every run that exits with code 0 other than
\* the built-in help invocation (which prints the usage text on standard
\* output and exits 0 before the input is read).
C2_ExitZeroWithPathMeansOneNoteDocument ==
  /\ (pc = "exited" /\ exit_code = 0 /\ argv # "help") =>
       /\ Len(stdout) = 1
       /\ IsNoteDocument(stdout[1], generated_note_text.text)
       /\ ~generated_note_text.none
       /\ Len(generated_note_text.text) > 0
       /\ IsTrimOf(generated_note_text.text, response.text)
  /\ CompletionUsable =>
       /\ pc \in {"check", "exited"}
       /\ pc = "exited" =>
            /\ exit_code = 0
            /\ Len(stdout) = 1
            /\ IsNoteDocument(stdout[1], generated_note_text.text)
            /\ IsTrimOf(generated_note_text.text, response.text)

C2_Witness ==
  /\ pc = "exited" /\ exit_code = 0 /\ argv = "path"
  /\ response.text = <<" ", "x", " ">>
  /\ Len(stdout) = 1 /\ IsNoteDocument(stdout[1], <<"x">>)

\* ---------------------------------------------------------------- C3
\* C3: on a record of the documented shape with any subset of the optional
\* fields and sub-records missing, extraction raises nothing and every
\* missing field takes its default: empty mapping, empty sequence,
\* "Your pet", "the species", "the recent visit", "the consultation".
IsEmptyDict(v) == v.t = "dict" /\ DOMAIN v.o = {}
IsEmptyList(v) == v.t = "list" /\ Len(v.a) = 0
IsStrVal(v, s) == v.t = "str" /\ v.s = s

ListVar(field) ==
  CASE field = "clinical_notes" -> clinical_notes_list
    [] field = "diagnostics"    -> diagnostics_list
    [] field = "procedures"     -> procedures_list
    [] field = "medicines"      -> medicines_list
    [] field = "prescriptions"  -> prescriptions_list
    [] field = "foods"          -> foods_list
    [] field = "supplies"       -> supplies_list

StepOf(field) == IF field = "clinical_notes" THEN "notes" ELSE field

C3_MissingFieldsTakeDefaults ==
  (file = "json" /\ WellShaped(consultation_data)) =>
    /\ exception = ""
    /\ Done("extract") =>
         LET r == consultation_data IN
         /\ Missing(r, <<"patient">>) => IsEmptyDict(patient_info)
         /\ Missing(r, <<"consultation">>) => IsEmptyDict(consult_info)
         /\ Missing(r, <<"consultation", "treatment_items">>) =>
              IsEmptyDict(treatment_items)
         /\ Missing(r, <<"patient", "name">>) =>
              IsStrVal(patient_name, "Your pet")
         /\ Missing(r, <<"patient", "species">>) =>
              IsStrVal(patient_species, "the species")
         /\ Missing(r, <<"consultation", "date">>) =>
              IsStrVal(consult_date, "the recent visit")
         /\ Missing(r, <<"consultation", "reason">>) =>
              IsStrVal(consult_reason, "the consultation")
    /\ \A f \in ConsultLists \cup TreatLists :
         (Done(StepOf(f)) /\ Missing(consultation_data, FieldPath(f))) =>
           IsEmptyList(ListVar(f))

C3_Witness ==
  /\ pc = "call"
  /\ IsEmptyDict(consultation_data)
  /\ IsStrVal(patient_name, "Your pet")
  /\ IsEmptyList(supplies_list)

\* ---------------------------------------------------------------- C4
\* C4: whatever level of a parsed record is null or of an unexpected
\* shape, no exception escapes extraction.
C4_NoExceptionEscapesExtraction ==
  (file = "json" /\ consultation_data.t = "dict") => exception = ""

\* ---------------------------------------------------------------- C5
\* C5: in each list section the joined names are exactly the names of the
\* items whose name is present and non-empty, in their original order.
NamesVar(field) ==
  CASE field = "diagnostics"    -> diag_names
    [] field = "procedures"     -> proc_names
    [] field = "medicines"      -> med_summaries
    [] field = "prescriptions"  -> home_med_details
    [] field = "foods"          -> food_names
    [] field = "supplies"       -> supply_names

C5_OnlyQualifyingNamesJoined ==
  (file = "json" /\ WellShaped(consultation_data)) =>
    \A f \in {"diagnostics"} \cup TreatLists :
      Done(f) => NamesVar(f) = QualifyingNames(consultation_data, f)

\* ---------------------------------------------------------------- C6
\* C6: the prescriptions section is the list sentence over the qualifying
\* names when there is one, the fixed fallback sentence otherwise, and
\* procedures, medicines, foods and supplies add nothing when they have no
\* qualifying item.
PartsWithPrefix(prefix) ==
  {i \in 1..Len(treatment_details_parts) :
     Len(treatment_details_parts[i]) > 0
     /\ treatment_details_parts[i][1] = prefix}

PrefixOf(field) ==
  CASE field = "procedures"    -> ProcPrefix
    [] field = "medicines"     -> MedPrefix
    [] field = "prescriptions" -> RxPrefix
    [] field = "foods"         -> FoodPrefix
    [] field = "supplies"      -> SupplyPrefix

C6_PrescriptionsTwoFormsOthersOmitted ==
  (file = "json" /\ WellShaped(consultation_data) /\ Done("supplies")) =>
    /\ LET q == QualifyingNames(consultation_data, "prescriptions")
       IN  \E i \in 1..Len(treatment_details_parts) :
             /\ PartsWithPrefix(RxPrefix) = {i}
             /\ treatment_details_parts[i] =
                  IF Len(q) > 0
                  THEN <<RxPrefix>> \o Interleave(q, ", ") \o <<RxSuffix>>
                  ELSE <<RxPrefix, RxFallbackBody>>
    /\ \A f \in TreatLists \ {"prescriptions"} :
         Len(QualifyingNames(consultation_data, f)) = 0 =>
           PartsWithPrefix(PrefixOf(f)) = {}

\* ---------------------------------------------------------------- C7
\* C7: the clinical-notes summary is the fixed fallback sentence when no
\* note has a present, non-empty text, and otherwise "Clinical
\* observations: " followed by the qualifying texts in their original
\* order, joined by newlines.
C7_ClinicalNotesSummary ==
  (file = "json" /\ WellShaped(consultation_data) /\ Done("notes")) =>
    LET q == QualifyingNames(consultation_data, "clinical_notes")
    IN  clinical_notes_summary =
          IF Len(q) = 0 THEN <<NotesFallback>>
          ELSE <<NotesPrefix>> \o Interleave(q, "\n")

C7_Witness ==
  /\ pc = "procedures"
  /\ Len(SourceItems(consultation_data, "clinical_notes")) = 2
  /\ clinical_notes_summary = <<NotesPrefix, "B", "\n", "A">>

\* ---------------------------------------------------------------- C8
\* C8: at most one completion request is issued, only with the credential
\* present and the input file read and parsed; a missing credential ends
\* the run before the file is opened; a failed or empty completion is
\* followed by no further request.
C8_SingleRequestAfterCredentialAndInput ==
  /\ Len(requests) <= 1
  /\ Len(requests) = 1 =>
       Truthy(OPENAI_API_KEY) /\ file = "json" /\ opens = 1
  /\ CredentialMissing => opens = 0 /\ file = "unopened" /\ pc = "exited"
  /\ (CompletionRaised \/ CompletionEmpty) =>
       Len(requests) = 1 /\ pc \in {"check", "exited"}

C8_Witness ==
  /\ pc = "exited" /\ exit_code = 1
  /\ response.kind = "RateLimitError"
  /\ Len(requests) = 1

\* ---------------------------------------------------------------- C9
\* C9: the treatment block is the emitted subsections in the order
\* procedures, medicines, prescriptions, foods, supplies, joined by a blank
\* line; in the user content the clinical-notes summary comes before the
\* diagnostics summary, which comes before the treatment block.
Rank(prefix) ==
  CASE prefix = ProcPrefix   -> 1
    [] prefix = MedPrefix    -> 2
    [] prefix = RxPrefix     -> 3
    [] prefix = FoodPrefix   -> 4
    [] prefix = SupplyPrefix -> 5

RECURSIVE ConcatUpTo(_, _, _)
ConcatUpTo(parts, sep, n) ==
  IF n = 0 THEN <<>>
  ELSE IF n = 1 THEN parts[1]
  ELSE ConcatUpTo(parts, sep, n - 1) \o <<sep>> \o parts[n]

InOrder(text, a, b, c) ==
  \E i \in 1..Len(text) :
    /\ OccursAt(text, a, i)
    /\ \E j \in (i + Len(a))..Len(text) :
         /\ OccursAt(text, b, j)
         /\ \E k \in (j + Len(b))..Len(text) : OccursAt(text, c, k)

C9_TreatmentBlockOrder ==
  (file = "json" /\ WellShaped(consultation_data)) =>
    /\ Done("join") =>
         /\ \A i, j \in 1..Len(treatment_details_parts) :
              i < j => Rank(treatment_details_parts[i][1])
                         < Rank(treatment_details_parts[j][1])
         /\ all_treatment_summary =
              ConcatUpTo(treatment_details_parts, "\n\n",
                         Len(treatment_details_parts))
    /\ Done("call") =>
         /\ Len(requests) = 1
         /\ InOrder(requests[1].user, clinical_notes_summary,
                    diagnostics_summary, all_treatment_summary)

C9_Witness ==
  /\ pc = "check"
  /\ Len(treatment_details_parts) = 5
  /\ diagnostics_summary = <<DiagPrefix, "A", ".">>

\* ---------------------------------------------------------------- C10
\* C10: whenever extraction completes, the prescriptions step has appended
\* exactly one sentence beginning "Medications prescribed for home care: ",
\* so the list of treatment parts is not empty and the treatment block is
\* never the "No specific treatments ..." sentence.
C10_PrescriptionsAlwaysEmitted ==
  file = "json" =>
    /\ Done("prescriptions") => Cardinality(PartsWithPrefix(RxPrefix)) = 1
    /\ Done("join") =>
         /\ all_treatment_summary # <<TreatFallback>>
         /\ \E i \in 1..Len(all_treatment_summary) :
              all_treatment_summary[i] = RxPrefix

C10_Witness ==
  /\ pc = "diagnostics"
  /\ Lookup(consultation_data, FieldPath("prescriptions")).val.t = "null"
  /\ Lookup(consultation_data, FieldPath("prescriptions")).found
  /\ PartsWithPrefix(RxPrefix) = {3}
  /\ treatment_details_parts[3] = <<RxPrefix, RxFallbackBody>>
====
